---- MODULE Spec2Model ----
(***************************************************************************)
(* Model of id-gen (src/src/main.rs): a quorum based id allocation run     *)
(* over a simulated network that delivers the in-flight messages in a      *)
(* scrambled order.  Servers 0..N_SERVERS-1 accept a proposed id when it   *)
(* is larger than the largest id they have seen; clients                   *)
(* N_SERVERS..N_SERVERS+N_CLIENTS-1 propose last_id + 1 to every server    *)
(* and count the answers of the current round.                             *)
(***************************************************************************)
EXTENDS Naturals, Integers, Sequences, FiniteSets, Bags, TLC

\* main.rs:4 and main.rs:5 set 10 and 15; the model runs smaller clusters.
\* A run fixes the two counts in its initial state (n_servers, n_clients)
\* and they never change, as in a build of the program.  N_SERVERS and
\* N_CLIENTS are the largest counts the model runs; every handler reads
\* n_servers where the source reads N_SERVERS.
N_SERVERS == 3
N_CLIENTS == 3

\* Largest id a client may propose where clients can fail for ever (u64 in
\* the source); see SpecContend.
MaxId == 3

VARIABLES
    n_servers,   \* the value of N_SERVERS in this run
    n_clients,   \* the value of N_CLIENTS in this run
    pc,          \* position of main: "seed", "loop", "done" or "panic"
    sender,      \* loop variable of the seeding loop (main.rs:135)
    computers,   \* main.rs:125, index -> Server or Client state
    in_flight,   \* main.rs:124, the bag of (from, to, message) triples
    top,         \* the triple pop() yields while the queue was never shuffled
    uuids,       \* per client, the number of Uuid::new_v4() values it drew
    stdout,      \* per client, the lines it printed, each with the round it ends
    voters       \* per client, the `from` of each entry of current_responses

vars == <<n_servers, n_clients, pc, sender, computers, in_flight, top, uuids, stdout, voters>>

ServerIds == 0 .. (n_servers - 1)
ClientIds == n_servers .. (n_servers + n_clients - 1)

\* Uuid::nil(), the value of Client::default().current_uuid.
NilUuid == <<>>

\* Uuid::new_v4() called by computer i: a value no earlier call returned.
new_v4(i) == IF i \in DOMAIN uuids THEN <<i, uuids[i] + 1>> ELSE NilUuid

NoTop == <<>>

Request(uuid, id) == [type |-> "Request", uuid |-> uuid, id |-> id]

Response(success, uuid, id) ==
    [type |-> "Response", success |-> success, uuid |-> uuid, id |-> id]

ServerDefault == [kind |-> "Server", max_id |-> 0]

ClientDefault ==
    [kind |-> "Client", last_id |-> 0, current_uuid |-> NilUuid,
     current_responses |-> <<>>]

\* Result<Id, Id>: Ok(id) and Err(id).
Ok(id) == [ok |-> TRUE, id |-> id]
Err(id) == [ok |-> FALSE, id |-> id]

\* iter().filter(|r| r.is_ok()).count() and its is_err() twin.
CountOk(responses) ==
    Cardinality({i \in 1 .. Len(responses) : responses[i].ok})

CountErr(responses) ==
    Cardinality({i \in 1 .. Len(responses) : ~responses[i].ok})

\* A threshold one too low (count >= N_SERVERS / 2 for count > N_SERVERS / 2).
Half_inclusive == (n_servers \div 2) - 1

\* N_SERVERS / 2 in usize arithmetic.
Half == n_servers \div 2

\* A handler's result: the new state of the computer, its outbound
\* (to, message) pairs, the lines it printed, the number of uuids it drew
\* and whether it panicked.
Outcome(computer, out, printed, drawn, fault) ==
    [computer |-> computer, out |-> out, printed |-> printed,
     drawn |-> drawn, fault |-> fault]

\* A server that also accepts the id it already holds (>= for >).
propose_nonstrict(server, from, uuid, id) ==
    IF id >= server.max_id
      THEN Outcome([server EXCEPT !.max_id = id],
                   <<<<from, Response(TRUE, uuid, id)>>>>, <<>>, 0, FALSE)
      ELSE Outcome(server,
                   <<<<from, Response(FALSE, uuid, server.max_id)>>>>,
                   <<>>, 0, FALSE)

\* A server that stores every proposed id, accepted or not.
propose_overwrite(server, from, uuid, id) ==
    IF id > server.max_id
      THEN Outcome([server EXCEPT !.max_id = id],
                   <<<<from, Response(TRUE, uuid, id)>>>>, <<>>, 0, FALSE)
      ELSE Outcome([server EXCEPT !.max_id = id],
                   <<<<from, Response(FALSE, uuid, server.max_id)>>>>,
                   <<>>, 0, FALSE)

\* A server that wants a gap: it accepts an id only above max_id + 1.
propose_gap(server, from, uuid, id) ==
    IF id > server.max_id + 1
      THEN Outcome([server EXCEPT !.max_id = id],
                   <<<<from, Response(TRUE, uuid, id)>>>>, <<>>, 0, FALSE)
      ELSE Outcome(server,
                   <<<<from, Response(FALSE, uuid, server.max_id)>>>>,
                   <<>>, 0, FALSE)

\* Server::propose
propose(server, from, uuid, id) ==
    IF id > server.max_id
      THEN Outcome([server EXCEPT !.max_id = id],
                   <<<<from, Response(TRUE, uuid, id)>>>>, <<>>, 0, FALSE)
      ELSE Outcome(server,
                   <<<<from, Response(FALSE, uuid, server.max_id)>>>>,
                   <<>>, 0, FALSE)

\* A client that sends the requests of a new round under the uuid of the
\* round before.
generate_requests_reuse(client, new_uuid) ==
    Outcome([client EXCEPT !.current_responses = <<>>],
            [i \in 1 .. n_servers |->
                <<i - 1, Request(client.current_uuid, client.last_id + 1)>>],
            <<>>, 1, FALSE)

\* A client that numbers the servers from 1 (1..=N_SERVERS for 0..N_SERVERS).
generate_requests_from_one(client, new_uuid) ==
    Outcome([client EXCEPT !.current_uuid = new_uuid,
                           !.current_responses = <<>>],
            [i \in 1 .. n_servers |->
                <<i, Request(new_uuid, client.last_id + 1)>>],
            <<>>, 1, FALSE)

\* A client that starts a round without clearing the tally of the last.
generate_requests_no_clear(client, new_uuid) ==
    Outcome([client EXCEPT !.current_uuid = new_uuid],
            [i \in 1 .. n_servers |->
                <<i - 1, Request(new_uuid, client.last_id + 1)>>],
            <<>>, 1, FALSE)

\* Client::generate_requests; new_uuid is the value Uuid::new_v4() returns.
generate_requests(client, new_uuid) ==
    Outcome([client EXCEPT !.current_uuid = new_uuid,
                           !.current_responses = <<>>],
            [i \in 1 .. n_servers |->
                <<i - 1, Request(new_uuid, client.last_id + 1)>>],
            <<>>, 1, FALSE)

\* A client that keeps the uuid of a round it has won.
on_success_open(client, id, new_uuid) ==
    IF id # client.last_id + 1
      THEN Outcome(client, <<>>, <<>>, 0, TRUE)
    ELSE LET pushed == [client EXCEPT !.current_responses = Append(@, Ok(id))]
         IN  IF CountOk(pushed.current_responses) > Half
               THEN IF ~(pushed.last_id < id)
                      THEN Outcome(pushed, <<>>, <<>>, 0, TRUE)
                      ELSE Outcome([pushed EXCEPT !.last_id = id], <<>>,
                                   <<[kind |-> "SUCCESS", id |-> id]>>,
                                   0, FALSE)
               ELSE Outcome(pushed, <<>>, <<>>, 0, FALSE)

\* A client that starts the round for the next id when it has won one.
on_success_again(client, id, new_uuid) ==
    IF id # client.last_id + 1
      THEN Outcome(client, <<>>, <<>>, 0, TRUE)
    ELSE LET pushed == [client EXCEPT !.current_responses = Append(@, Ok(id))]
         IN  IF CountOk(pushed.current_responses) > Half
               THEN IF ~(pushed.last_id < id)
                      THEN Outcome(pushed, <<>>, <<>>, 0, TRUE)
                      ELSE LET again == generate_requests(
                                   [pushed EXCEPT !.last_id = id], new_uuid)
                           IN  Outcome(again.computer, again.out,
                                       <<[kind |-> "SUCCESS", id |-> id]>>,
                                       again.drawn, FALSE)
               ELSE Outcome(pushed, <<>>, <<>>, 0, FALSE)

\* Client::receive, the `if success` branch (main.rs:98-107); the two
\* assertions panic.
on_success(client, id, new_uuid) ==
    IF id # client.last_id + 1
      THEN Outcome(client, <<>>, <<>>, 0, TRUE)
    ELSE LET pushed == [client EXCEPT !.current_responses = Append(@, Ok(id))]
         IN  IF CountOk(pushed.current_responses) > Half
               THEN IF ~(pushed.last_id < id)
                      THEN Outcome(pushed, <<>>, <<>>, 0, TRUE)
                      ELSE Outcome([pushed EXCEPT !.last_id = id,
                                                  !.current_uuid = new_uuid],
                                   <<>>,
                                   <<[kind |-> "SUCCESS", id |-> id]>>,
                                   1, FALSE)
               ELSE Outcome(pushed, <<>>, <<>>, 0, FALSE)

\* A client that adopts the id of every rejection, before it counts them.
on_failure_eager(client, id, new_uuid) ==
    LET pushed == [client EXCEPT !.current_responses = Append(@, Err(id)),
                                 !.last_id = id]
    IN  IF CountErr(pushed.current_responses) > Half
          THEN LET again == generate_requests(pushed, new_uuid)
               IN  Outcome(again.computer, again.out,
                           <<[kind |-> "FAILURE", id |-> id]>>,
                           again.drawn, FALSE)
          ELSE Outcome(pushed, <<>>, <<>>, 0, FALSE)

\* A client that retries from the reported ceiling without storing it: the
\* new round proposes id + 1 and last_id keeps its value.
on_failure_keep(client, id, new_uuid) ==
    LET pushed == [client EXCEPT !.current_responses = Append(@, Err(id))]
    IN  IF CountErr(pushed.current_responses) > Half
          THEN LET again == generate_requests([pushed EXCEPT !.last_id = id],
                                              new_uuid)
               IN  Outcome([again.computer EXCEPT !.last_id = client.last_id],
                           again.out,
                           <<[kind |-> "FAILURE", id |-> id]>>,
                           again.drawn, FALSE)
          ELSE Outcome(pushed, <<>>, <<>>, 0, FALSE)

\* A client that prints FAILURE and adopts the id but waits instead of
\* starting the next round.
on_failure_idle(client, id, new_uuid) ==
    LET pushed == [client EXCEPT !.current_responses = Append(@, Err(id))]
    IN  IF CountErr(pushed.current_responses) > Half
          THEN Outcome([pushed EXCEPT !.last_id = id], <<>>,
                       <<[kind |-> "FAILURE", id |-> id]>>, 0, FALSE)
          ELSE Outcome(pushed, <<>>, <<>>, 0, FALSE)

\* Client::receive, the `else` branch (main.rs:108-116).
on_failure(client, id, new_uuid) ==
    LET pushed == [client EXCEPT !.current_responses = Append(@, Err(id))]
    IN  IF CountErr(pushed.current_responses) > Half
          THEN LET failed == [pushed EXCEPT !.last_id = id]
                   again == generate_requests(failed, new_uuid)
               IN  Outcome(again.computer, again.out,
                           <<[kind |-> "FAILURE", id |-> id]>>,
                           again.drawn, FALSE)
          ELSE Outcome(pushed, <<>>, <<>>, 0, FALSE)

\* A client that counts a response whatever its uuid.
receive_unchecked(client, from, success, uuid, id, new_uuid) ==
    IF success
      THEN on_success(client, id, new_uuid)
      ELSE on_failure(client, id, new_uuid)

\* Client::receive; new_uuid is the value Uuid::new_v4() returns when called.
receive(client, from, success, uuid, id, new_uuid) ==
    IF uuid # client.current_uuid
      THEN Outcome(client, <<>>, <<>>, 0, FALSE)
    ELSE IF success
      THEN on_success(client, id, new_uuid)
      ELSE on_failure(client, id, new_uuid)

\* Computer::receive: the match on (self, message); `_ => unreachable!()`.
Computer_receive(computer, from, message, new_uuid) ==
    IF computer.kind = "Server" /\ message.type = "Request"
      THEN propose(computer, from, message.uuid, message.id)
    ELSE IF computer.kind = "Client" /\ message.type = "Response"
      THEN receive(computer, from, message.success, message.uuid,
                   message.id, new_uuid)
    ELSE Outcome(computer, <<>>, <<>>, 0, TRUE)

\* A loop that acts on the drop decision of main.rs:161 for the first
\* reply: the `continue` of main.rs:164 taken.
Pushed_lossy(from, out) ==
    LET triple(i) == <<from, out[i][1], out[i][2]>>
        T == {triple(i) : i \in 2 .. Len(out)}
    IN  [t \in T |-> Cardinality({i \in 2 .. Len(out) : triple(i) = t})]

\* The bag of triples main pushes for one handler's outbound pairs.
Pushed(from, out) ==
    LET triple(i) == <<from, out[i][1], out[i][2]>>
        T == {triple(i) : i \in 1 .. Len(out)}
    IN  [t \in T |-> Cardinality({i \in 1 .. Len(out) : triple(i) = t})]

\* The lines a handler printed, tagged with the round (current_uuid when
\* the handler was entered) they conclude.
Printed(uuid, printed) ==
    [i \in 1 .. Len(printed) |->
        [kind |-> printed[i].kind, id |-> printed[i].id, uuid |-> uuid]]

\* The senders of the entries of current_responses after a client handled
\* a message from `from`.
Voted(old, before, after, from) ==
    IF after.kind # "Client" THEN old
    ELSE IF after.current_responses = <<>> THEN <<>>
    ELSE IF Len(after.current_responses) = Len(before.current_responses) + 1
      THEN Append(old, from)
    ELSE old

\* main.rs:124-132: the state main builds before it seeds the requests,
\* for a build with ns servers and nc clients.
Start(ns, nc) ==
    /\ n_servers = ns
    /\ n_clients = nc
    /\ pc = "seed"
    /\ sender = ns
    /\ computers = [i \in 0 .. (ns + nc - 1) |->
                       IF i < ns THEN ServerDefault ELSE ClientDefault]
    /\ in_flight = EmptyBag
    /\ top = NoTop
    /\ uuids = [c \in ns .. (ns + nc - 1) |-> 0]
    /\ stdout = [c \in ns .. (ns + nc - 1) |-> <<>>]
    /\ voters = [c \in ns .. (ns + nc - 1) |-> <<>>]

\* The builds whose every delivery order is explored: a majority of two out
\* of N_SERVERS servers with one and with two clients, and N_CLIENTS clients
\* that need both of two servers.
Clusters == {<<N_SERVERS, 1>>, <<N_SERVERS, 2>>, <<2, N_CLIENTS>>}

Init == \E cluster \in Clusters : Start(cluster[1], cluster[2])

\* main.rs:135-147, one iteration of the seeding loop.
Seed ==
    /\ pc = "seed"
    /\ LET r == generate_requests(computers[sender], new_v4(sender))
       IN  /\ computers' = [computers EXCEPT ![sender] = r.computer]
           /\ in_flight' = in_flight (+) Pushed(sender, r.out)
           /\ top' = <<sender, r.out[Len(r.out)][1], r.out[Len(r.out)][2]>>
           /\ uuids' = [uuids EXCEPT ![sender] = @ + r.drawn]
    /\ sender' = sender + 1
    /\ pc' = IF sender + 1 = n_servers + n_clients THEN "loop" ELSE "seed"
    /\ UNCHANGED <<n_servers, n_clients, stdout, voters>>

\* A loop without the is_empty() test: pop().unwrap() panics on None.
Return_unwrap ==
    /\ pc = "loop"
    /\ in_flight = EmptyBag
    /\ pc' = "panic"
    /\ UNCHANGED <<n_servers, n_clients, sender, computers, in_flight, top,
                   uuids, stdout, voters>>

\* main.rs:150-152
Return ==
    /\ pc = "loop"
    /\ in_flight = EmptyBag
    /\ pc' = "done"
    /\ UNCHANGED <<n_servers, n_clients, sender, computers, in_flight, top,
                   uuids, stdout, voters>>

\* main.rs:154-170, one iteration of the delivery loop that pops m.  pop()
\* takes the last element of the vector: the last seeded request before the
\* first shuffle, any element after it.
Deliver(m) ==
    /\ pc = "loop"
    /\ BagIn(m, in_flight)
    /\ top # NoTop => m = top
    /\ LET from == m[1]
           to == m[2]
           r == Computer_receive(computers[to], from, m[3], new_v4(to))
       IN  /\ IF r.fault
                THEN /\ pc' = "panic"
                     /\ in_flight' = in_flight (-) SetToBag({m})
                     /\ UNCHANGED <<computers, uuids, stdout, voters>>
                ELSE /\ pc' = pc
                     /\ computers' = [computers EXCEPT ![to] = r.computer]
                     /\ in_flight' = (in_flight (-) SetToBag({m}))
                                        (+) Pushed(to, r.out)
                     /\ IF to \in ClientIds
                          THEN /\ uuids' = [uuids EXCEPT ![to] = @ + r.drawn]
                               /\ stdout' = [stdout EXCEPT ![to] =
                                    @ \o Printed(computers[to].current_uuid,
                                                 r.printed)]
                               /\ voters' = [voters EXCEPT ![to] =
                                    Voted(@, computers[to], r.computer, from)]
                          ELSE UNCHANGED <<uuids, stdout, voters>>
    /\ top' = NoTop
    /\ UNCHANGED <<n_servers, n_clients, sender>>

Step == \E m \in BagToSet(in_flight) : Deliver(m)

Next == Seed \/ Step \/ Return

Spec == Init /\ [][Next]_vars

\* N_SERVERS servers and N_CLIENTS clients under the delivery orders in
\* which no reply waits and no request overtakes a request for a lower id:
\* shuffle leaves a Response, when there is one, at the end of the vector,
\* and else a Request of the lowest id in flight.  Requests for the same id
\* are reordered at will.  Rounds that would propose an id beyond MaxId are
\* not explored.
Prompt(m) ==
    /\ m[3].type = "Request" =>
          \A x \in BagToSet(in_flight) :
             x[3].type # "Response" /\ x[3].id >= m[3].id
    /\ \A c \in ClientIds :
          \A x \in DOMAIN Pushed(c, Computer_receive(
                       computers[m[2]], m[1], m[3], new_v4(m[2])).out) :
             x[3].id <= MaxId
    /\ Deliver(m)

PromptStep == \E m \in BagToSet(in_flight) : Prompt(m)

InitContend == Start(N_SERVERS, N_CLIENTS)

NextContend == Seed \/ PromptStep \/ Return

SpecContend == InitContend /\ [][NextContend]_vars


(***************************************************************************)
(* Properties                                                              *)
(***************************************************************************)

last_id(c) == computers[c].last_id

\* The lines of one kind a client printed, as indices into its output.
Lines(c, kind) == {i \in DOMAIN stdout[c] : stdout[c][i].kind = kind}

\* The servers whose acceptance a client's tally counts.
Accepters(c) ==
    {voters[c][i] : i \in {j \in DOMAIN voters[c] :
                              computers[c].current_responses[j].ok}}

\* C1: for every id, at most one round of one client collects accepted
\* responses from more than half of the servers, and no two SUCCESS lines of
\* a run, of the same or of different clients, carry the same id.
C1_OneWinnerPerId ==
    /\ \A c, d \in ClientIds :
         \A i \in Lines(c, "SUCCESS"), j \in Lines(d, "SUCCESS") :
            stdout[c][i].id = stdout[d][j].id => (c = d /\ i = j)
    /\ \A c, d \in ClientIds :
         ( /\ c # d
           /\ CountOk(computers[c].current_responses) > Half
           /\ CountOk(computers[d].current_responses) > Half )
         => \A i \in DOMAIN computers[c].current_responses,
               j \in DOMAIN computers[d].current_responses :
               ( computers[c].current_responses[i].ok
                 /\ computers[d].current_responses[j].ok )
               => computers[c].current_responses[i].id
                    # computers[d].current_responses[j].id

\* Two clients have succeeded, with different ids.
C1_Witness ==
    \E c, d \in ClientIds :
        /\ c # d
        /\ Lines(c, "SUCCESS") # {}
        /\ Lines(d, "SUCCESS") # {}

\* C2: no step of the run lowers the max_id of a server.
C2_MaxIdNeverDecreases ==
    [][\A s \in ServerIds : computers'[s].max_id >= computers[s].max_id]_vars

\* A server that accepted id 2 has since rejected a proposal of id 1: the
\* rejection, carrying its ceiling 2, is on its way to a client that still
\* waits for the answers to its first round.
C2_Witness ==
    \E m \in BagToSet(in_flight) :
        /\ m[1] \in ServerIds
        /\ m[3].type = "Response" /\ ~m[3].success /\ m[3].id = 2
        /\ computers[m[1]].max_id = 2
        /\ m[3].uuid = computers[m[2]].current_uuid
        /\ last_id(m[2]) = 0

Last(seq) == IF seq = <<>> THEN [kind |-> "", id |-> 0, uuid |-> NilUuid]
             ELSE seq[Len(seq)]

\* Client c printed, in this step, the line `kind; ID = id`.
PrintedNow(c, kind, id) ==
    stdout'[c] = Append(stdout[c], [kind |-> kind, id |-> id,
                                    uuid |-> computers[c].current_uuid])

\* C3: no step of the run lowers the last_id of a client; the step that
\* prints FAILURE overwrites last_id with the id it prints, the ceiling a
\* server reported, and that is no decrease either.
C3_LastIdNeverDecreases ==
    [][\A c \in ClientIds :
          /\ computers'[c].last_id >= computers[c].last_id
          /\ PrintedNow(c, "FAILURE", Last(stdout'[c]).id)
                => computers'[c].last_id = Last(stdout'[c]).id]_vars

\* A client failed twice: the second time it held a last_id above 0 and
\* overwrote it.
C3_Witness ==
    \E c \in ClientIds :
        /\ Cardinality(Lines(c, "FAILURE")) >= 2
        /\ last_id(c) >= 2

\* C4: a client that printed SUCCESS holds accepted responses of its round
\* from more than half of the servers, all of different servers.
C4_SuccessHasQuorum ==
    \A c \in ClientIds :
        Lines(c, "SUCCESS") # {} => 2 * Cardinality(Accepters(c)) > n_servers

\* A client won a round in which one of three servers rejected it first.
C4_Witness ==
    \E c \in ClientIds :
        /\ n_servers = N_SERVERS
        /\ Lines(c, "SUCCESS") # {}
        /\ Len(computers[c].current_responses) = 3
        /\ ~computers[c].current_responses[1].ok

\* The accepted responses of the round a client's step ended: the tally it
\* keeps after a success, the tally it cleared after a failure.
AcceptedInEndedRound(c) ==
    IF computers'[c].current_responses = <<>>
      THEN CountOk(computers[c].current_responses)
      ELSE CountOk(computers'[c].current_responses)

\* C5 as stated: in every step in which a client's last_id grows, the round
\* that just ended had accepted responses from more than half of the servers.
C5_GrowsOnlyByQuorum ==
    [][\A c \in ClientIds :
          computers'[c].last_id > computers[c].last_id
             => AcceptedInEndedRound(c) > Half]_vars

\* C5 amended: a client's last_id grows only in the step that ends its
\* round: by one, with SUCCESS and accepted responses from more than half of
\* the servers, or to the id of the rejection just delivered, with FAILURE
\* and rejections from more than half of the servers.
C5_GrowsOnlyWhenRoundEnds ==
    [][\A c \in ClientIds :
          computers'[c].last_id > computers[c].last_id
             => \/ /\ computers'[c].last_id = computers[c].last_id + 1
                   /\ PrintedNow(c, "SUCCESS", computers'[c].last_id)
                   /\ 2 * CountOk(computers'[c].current_responses) > n_servers
                   /\ 2 * Cardinality(Accepters(c)') > n_servers
                \/ /\ PrintedNow(c, "FAILURE", computers'[c].last_id)
                   /\ 2 * (CountErr(computers[c].current_responses) + 1)
                         > n_servers
                   /\ \E m \in BagToSet(in_flight) :
                         /\ Deliver(m)
                         /\ m[2] = c
                         /\ ~m[3].success
                         /\ m[3].id = computers'[c].last_id]_vars

\* A client's last_id grew both ways: it failed, adopted a ceiling, and then
\* won the next id.
C5_Witness ==
    \E c \in ClientIds :
        /\ Lines(c, "FAILURE") # {}
        /\ Lines(c, "SUCCESS") # {}
        /\ last_id(c) >= 2

\* m is a Response for a client that carries another uuid than the
\* client's current one.
Stale(m) ==
    /\ m[2] \in ClientIds
    /\ m[3].type = "Response"
    /\ m[3].uuid # computers[m[2]].current_uuid

\* C6: the step that delivers a response whose uuid is not the client's
\* current_uuid changes nothing but the queue, which loses that response:
\* last_id, current_uuid and the tally stay, nothing is sent or printed.
C6_StaleResponseIsInert ==
    [][\A m \in BagToSet(in_flight) :
          (Stale(m) /\ Deliver(m))
             => /\ computers' = computers
                /\ stdout' = stdout
                /\ voters' = voters
                /\ pc' = pc
                /\ in_flight' = in_flight (-) SetToBag({m})]_vars

\* Responses to a round that is over have been delivered: a client won with
\* two of three servers and the third answer has come and gone, and another
\* lost and the answers left over from that round have come and gone.
C6_Witness ==
    /\ n_servers = N_SERVERS
    /\ \E c, d \in ClientIds :
         /\ Lines(c, "SUCCESS") # {}
         /\ Len(computers[c].current_responses) = 2
         /\ Lines(d, "FAILURE") # {}
         /\ Lines(d, "SUCCESS") # {}
         /\ Len(computers[d].current_responses) = 2
    /\ in_flight = EmptyBag

\* C7: a client prints at most one line, SUCCESS or FAILURE, for one round:
\* no two lines of a client were printed under the same current_uuid.
C7_OneLinePerRound ==
    \A c \in ClientIds :
        \A i, j \in DOMAIN stdout[c] :
            stdout[c][i].uuid = stdout[c][j].uuid => i = j

\* A client concluded three rounds: it failed twice and won the third.
C7_Witness ==
    \E c \in ClientIds :
        /\ Cardinality(Lines(c, "FAILURE")) = 2
        /\ Cardinality(Lines(c, "SUCCESS")) = 1

\* C8: neither assertion of Client::receive fails: the run never panics, and
\* every accepted response in flight that bears the current uuid of its
\* client carries last_id + 1.
C8_NoProtocolFault ==
    /\ pc # "panic"
    /\ \A m \in BagToSet(in_flight) :
          ( /\ m[2] \in ClientIds
            /\ m[3].type = "Response"
            /\ m[3].success
            /\ m[3].uuid = computers[m[2]].current_uuid )
          => m[3].id = last_id(m[2]) + 1

\* Both assertions were passed above the first id: a client that had failed
\* holds an accepted response for its second round and one more is under way.
C8_Witness ==
    \E c \in ClientIds :
        /\ Lines(c, "FAILURE") # {}
        /\ Lines(c, "SUCCESS") = {}
        /\ CountOk(computers[c].current_responses) >= 1
        /\ \E m \in BagToSet(in_flight) :
              /\ m[2] = c
              /\ m[3].type = "Response"
              /\ m[3].success
              /\ m[3].uuid = computers[c].current_uuid

\* The state the seeding loop leaves, k ids later: every server holds k,
\* every client holds k with an empty tally and has never won, and the queue
\* holds exactly one request for k + 1 from every client to every server.
SeededAgain(k) ==
    /\ pc = "loop"
    /\ \A s \in ServerIds : computers[s].max_id = k
    /\ \A c \in ClientIds :
          /\ last_id(c) = k
          /\ computers[c].current_responses = <<>>
          /\ Lines(c, "SUCCESS") = {}
    /\ in_flight = SetToBag({<<c, s, Request(computers[c].current_uuid, k + 1)>> :
                                c \in ClientIds, s \in ServerIds})

\* C9: every run ends with an empty queue.  The handlers only compare ids
\* and add one to them and only compare uuids, so a run that comes back to
\* the seeded state k ids later can take the same steps again, k ids later
\* each time, and never end: if every run ends, no such state is reached.
C9_NoRoundStartsOver == \A k \in 1 .. MaxId : ~SeededAgain(k)

\* m is a Request for a server.
Proposal(m) == m[2] \in ServerIds /\ m[3].type = "Request"

\* What the claim says a server answers to the proposal m.
Answer(m) ==
    IF m[3].id > computers[m[2]].max_id
      THEN Response(TRUE, m[3].uuid, m[3].id)
      ELSE Response(FALSE, m[3].uuid, computers[m[2]].max_id)

\* C10: the step that delivers Request{uuid, id} from sender s to a server
\* puts exactly one Response in the queue, to s and with the same uuid; if
\* id > max_id the server's max_id becomes id and the Response is accepted
\* with that id, otherwise (id = max_id included) max_id stays and the
\* Response is rejected with max_id.  Nothing else changes.
C10_ProposeIsTotalAndStrict ==
    [][\A m \in BagToSet(in_flight) :
          (Proposal(m) /\ Deliver(m))
             => /\ in_flight' = (in_flight (-) SetToBag({m}))
                                   (+) SetToBag({<<m[2], m[1], Answer(m)>>})
                /\ computers'[m[2]].max_id =
                      IF m[3].id > computers[m[2]].max_id
                        THEN m[3].id
                        ELSE computers[m[2]].max_id
                /\ \A i \in DOMAIN computers :
                      i # m[2] => computers'[i] = computers[i]
                /\ stdout' = stdout
                /\ pc' = pc]_vars

\* A server has answered all three cases: rejections that carry the
\* proposed id itself (id = max_id) and a larger one (id < max_id) are in
\* flight to clients in their first round, and an acceptance is in flight.
C10_Witness ==
    /\ \E m \in BagToSet(in_flight) :
          /\ m[3].type = "Response" /\ ~m[3].success
          /\ m[3].uuid = computers[m[2]].current_uuid
          /\ m[3].id = last_id(m[2]) + 1
    /\ \E m \in BagToSet(in_flight) :
          /\ m[3].type = "Response" /\ ~m[3].success
          /\ m[3].uuid = computers[m[2]].current_uuid
          /\ m[3].id > last_id(m[2]) + 1
    /\ \E m \in BagToSet(in_flight) :
          m[3].type = "Response" /\ m[3].success

\* Every value Uuid::new_v4() has returned so far, and Uuid::nil().
Drawn ==
    {NilUuid} \cup UNION {{<<c, k>> : k \in 1 .. uuids[c]} : c \in ClientIds}

\* The requests a round of client c puts in the queue: one to every server,
\* all with the client's uuid and last_id + 1 as they are after the step.
RoundRequests(c) ==
    {<<c, s, Request(computers'[c].current_uuid, computers'[c].last_id + 1)>> :
        s \in ServerIds}

\* The queue gained, in this step, a triple sent by client c.
StartsRound(c) ==
    \E t \in BagToSet(in_flight') :
        t[1] = c /\ CopiesIn(t, in_flight') > CopiesIn(t, in_flight)

\* C11: the step in which a client starts a round (the seeding of the
\* client, or its majority rejection) gives it a current_uuid that no call
\* of new_v4 returned before and no message in flight bears, leaves its
\* tally empty, leaves last_id unchanged after the adoption a FAILURE made,
\* and adds to the queue exactly one Request per server 0..n_servers-1, all
\* with that uuid and id = last_id + 1.
C11_RoundStartsFresh ==
    [][\A c \in ClientIds :
          StartsRound(c)
             => /\ computers'[c].current_uuid \notin Drawn
                /\ computers'[c].current_uuid \in Drawn'
                /\ \A x \in BagToSet(in_flight) :
                      x[3].uuid # computers'[c].current_uuid
                /\ computers'[c].current_responses = <<>>
                /\ computers'[c].last_id =
                      IF PrintedNow(c, "FAILURE", Last(stdout'[c]).id)
                        THEN Last(stdout'[c]).id
                        ELSE computers[c].last_id
                /\ in_flight' (-) in_flight = SetToBag(RoundRequests(c))
                /\ Cardinality(RoundRequests(c)) = n_servers]_vars

\* A client that failed has started its second round: its tally is empty
\* and a request for last_id + 1 with its uuid is on its way to every server.
C11_Witness ==
    \E c \in ClientIds :
        /\ Lines(c, "FAILURE") # {}
        /\ last_id(c) >= 1
        /\ computers[c].current_responses = <<>>
        /\ \A s \in ServerIds :
              BagIn(<<c, s, Request(computers[c].current_uuid, last_id(c) + 1)>>,
                    in_flight)

\* The ids of the rejections in a tally.
Ceilings(responses) ==
    {responses[i].id : i \in {j \in DOMAIN responses : ~responses[j].ok}}

\* C12: in the step in which a client prints FAILURE, the id it prints and
\* stores in last_id is the highest id among the rejections of the round:
\* no rejection it tallied earlier in the round carries a higher one.
C12_AdoptsHighestCeiling ==
    [][\A c \in ClientIds :
          PrintedNow(c, "FAILURE", Last(stdout'[c]).id)
             => /\ computers'[c].last_id = Last(stdout'[c]).id
                /\ \A id \in Ceilings(computers[c].current_responses) :
                      id <= computers'[c].last_id]_vars

\* m is a Response for a client that carries the client's current_uuid.
Current(m) ==
    /\ m[2] \in ClientIds
    /\ m[3].type = "Response"
    /\ m[3].uuid = computers[m[2]].current_uuid

\* The tally of the client m is for, with the outcome m reports pushed.
Tallied(m) ==
    Append(computers[m[2]].current_responses,
           IF m[3].success THEN Ok(m[3].id) ELSE Err(m[3].id))

\* C13: the step that delivers to a client the rejection of its current
\* round that brings the number of rejections above half of the servers
\* prints FAILURE with the id of that rejection, stores it in last_id and
\* puts in the queue one Request per server with a new uuid and that id + 1;
\* the step that delivers a response of the current round after which
\* neither the accepted nor the rejected responses exceed half of the servers
\* only tallies it: nothing is sent or printed and current_uuid and last_id
\* stay.
C13_FailureRestartsAtOnce ==
    [][\A m \in BagToSet(in_flight) :
          (Current(m) /\ Deliver(m))
             => /\ (~m[3].success /\ 2 * CountErr(Tallied(m)) > n_servers)
                     => /\ PrintedNow(m[2], "FAILURE", m[3].id)
                        /\ computers'[m[2]].last_id = m[3].id
                        /\ computers'[m[2]].current_uuid \notin Drawn
                        /\ computers'[m[2]].current_responses = <<>>
                        /\ in_flight' = (in_flight (-) SetToBag({m}))
                                           (+) SetToBag(RoundRequests(m[2]))
                /\ ( /\ 2 * CountOk(Tallied(m)) <= n_servers
                     /\ 2 * CountErr(Tallied(m)) <= n_servers )
                     => /\ in_flight' = in_flight (-) SetToBag({m})
                        /\ computers'[m[2]] =
                              [computers[m[2]] EXCEPT
                                  !.current_responses = Tallied(m)]
                        /\ stdout' = stdout
                        /\ uuids' = uuids]_vars

\* One client has failed and the requests of its next round are in the
\* queue, while another holds one accepted and one rejected response of two
\* servers and waits, having printed nothing.
C13_Witness ==
    \E c, d \in ClientIds :
        /\ Lines(c, "FAILURE") # {}
        /\ \E s \in ServerIds :
              BagIn(<<c, s, Request(computers[c].current_uuid, last_id(c) + 1)>>,
                    in_flight)
        /\ stdout[d] = <<>>
        /\ CountOk(computers[d].current_responses) = 1
        /\ CountErr(computers[d].current_responses) = 1
        /\ computers[d].current_uuid = <<d, 1>>

\* The builds in which every run comes to its end whatever the order of
\* delivery: a lone client, and N_CLIENTS clients of two servers.
InitFair == Start(N_SERVERS, 1) \/ Start(2, N_CLIENTS)

\* main runs on: the loop of main.rs:149-171 takes its next step as long as
\* it has one.
FairSpec == InitFair /\ [][Next]_vars /\ WF_vars(Next)

\* The one line a lone client prints.
Success1(c) == <<[kind |-> "SUCCESS", id |-> 1, uuid |-> <<c, 1>>]>>

\* C14: in a run with a single client every server accepts the proposal
\* for id 1 (no rejection is ever in flight and every server ends with
\* max_id = 1), the client prints nothing but one SUCCESS; ID = 1, and the
\* run comes to its end, the queue empty, with last_id = 1.
C14_LoneClientWinsIdOne ==
    (n_clients = 1) =>
        /\ [](\A c \in ClientIds :
                 /\ stdout[c] = <<>> \/ stdout[c] = Success1(c)
                 /\ last_id(c) <= 1)
        /\ [](\A m \in BagToSet(in_flight) :
                 m[3].type = "Response" => m[3].success /\ m[3].id = 1)
        /\ <>[]( /\ pc = "done"
                 /\ in_flight = EmptyBag
                 /\ \A s \in ServerIds : computers[s].max_id = 1
                 /\ \A c \in ClientIds :
                       stdout[c] = Success1(c) /\ last_id(c) = 1 )

\* The lone client of three servers has won with the answers of servers 0
\* and 1, the answer of server 2 came after, and the run is over.
C14_Witness ==
    /\ n_clients = 1
    /\ n_servers = N_SERVERS
    /\ pc = "done"
    /\ \A c \in ClientIds :
          /\ stdout[c] = Success1(c)
          /\ voters[c] = <<0, 1>>

\* C15: Computer::receive never takes its unreachable!() arm: every
\* Request in flight is addressed to an index in 0..n_servers-1, which holds
\* a Server, every Response in flight is addressed to a client index, which
\* holds a Client, the seeding loop only visits clients, and no handler
\* reports a fault for a message in flight.
C15_NoRoutingFault ==
    /\ pc # "panic"
    /\ pc = "seed" => computers[sender].kind = "Client"
    /\ \A m \in BagToSet(in_flight) :
          /\ m[3].type = "Request"
                => m[2] \in ServerIds /\ computers[m[2]].kind = "Server"
          /\ m[3].type = "Response"
                => m[2] \in ClientIds /\ computers[m[2]].kind = "Client"
          /\ m[3].type \in {"Request", "Response"}
          /\ m[1] \in DOMAIN computers /\ m[2] \in DOMAIN computers

\* Requests of a second round and responses of both kinds share the queue.
C15_Witness ==
    /\ \E m \in BagToSet(in_flight) :
          m[3].type = "Request" /\ m[3].id = 2 /\ m[2] = n_servers - 1
    /\ \E m \in BagToSet(in_flight) :
          m[3].type = "Response" /\ m[3].success
             /\ m[2] = n_servers + n_clients - 1
    /\ \E m \in BagToSet(in_flight) :
          m[3].type = "Response" /\ ~m[3].success /\ m[2] = n_servers

\* C16: the step that delivers to a client the accepted response of its
\* current round that brings the accepted count above half of the servers
\* prints SUCCESS, puts nothing in the queue and leaves the client with a
\* current_uuid that no call of new_v4 returned before and no message in
\* flight bears; and no step changes a client that has printed SUCCESS: its
\* last_id, current_uuid and tally stay, it prints nothing more and no
\* triple it sends enters the queue.
C16_SuccessClosesClient ==
    [][/\ \A m \in BagToSet(in_flight) :
             ( /\ Current(m) /\ Deliver(m)
               /\ m[3].success
               /\ 2 * CountOk(Tallied(m)) > n_servers )
             => /\ PrintedNow(m[2], "SUCCESS", m[3].id)
                /\ in_flight' = in_flight (-) SetToBag({m})
                /\ computers'[m[2]].current_uuid \notin Drawn
                /\ \A x \in BagToSet(in_flight') :
                      x[3].uuid # computers'[m[2]].current_uuid
       /\ \A c \in ClientIds :
             Lines(c, "SUCCESS") # {}
                => /\ computers'[c] = computers[c]
                   /\ stdout'[c] = stdout[c]
                   /\ uuids'[c] = uuids[c]
                   /\ ~StartsRound(c)
                   /\ Cardinality(Lines(c, "SUCCESS")) = 1]_vars

\* A client of three servers won with two answers; the third answer has
\* come and gone, nothing of that client is left in the queue, and the run
\* goes on for another client.
C16_Witness ==
    \E c \in ClientIds :
        /\ n_servers = N_SERVERS
        /\ Lines(c, "SUCCESS") # {}
        /\ Len(computers[c].current_responses) = 2
        /\ \A m \in BagToSet(in_flight) : m[1] # c /\ m[2] # c
        /\ in_flight # EmptyBag

\* C17: every round that ends raises last_id.  A server answers a proposal
\* with a Response whose id is at least the proposed id, so a rejection of
\* a client's current round carries at least last_id + 1; the step that
\* prints SUCCESS adds exactly one to last_id, the step that prints FAILURE
\* at least one; and the requests of a new round propose more than the
\* round before and more than any request of the client still in flight.
C17_RoundsRaiseLastId ==
    [][/\ \A m \in BagToSet(in_flight) :
             (Proposal(m) /\ Deliver(m))
                => \A x \in BagToSet(in_flight' (-) in_flight) :
                      x[3].type = "Response" /\ x[3].id >= m[3].id
       /\ \A m \in BagToSet(in_flight) :
             (Current(m) /\ ~m[3].success) => m[3].id >= last_id(m[2]) + 1
       /\ \A c \in ClientIds :
             /\ stdout'[c] # stdout[c]
                   => /\ computers'[c].last_id >= computers[c].last_id + 1
                      /\ Last(stdout'[c]).kind = "SUCCESS"
                            => computers'[c].last_id = computers[c].last_id + 1
             /\ (StartsRound(c) /\ stdout'[c] # stdout[c])
                   => /\ computers'[c].last_id + 1 > computers[c].last_id + 1
                      /\ \A x \in BagToSet(in_flight) :
                            (x[1] = c /\ x[3].type = "Request")
                               => x[3].id < computers'[c].last_id + 1]_vars

\* A client's first round was rejected with ceiling 2, two above its
\* last_id: it adopted 2, proposed 3 and won it.
C17_Witness ==
    \E c \in ClientIds :
        /\ Len(stdout[c]) = 2
        /\ stdout[c][1].kind = "FAILURE" /\ stdout[c][1].id = 2
        /\ stdout[c][2].kind = "SUCCESS" /\ stdout[c][2].id = 3
        /\ last_id(c) = 3

\* What the recipient of m returns to main.
Replies(m) ==
    Computer_receive(computers[m[2]], m[1], m[3], new_v4(m[2])).out

C19_TallyOfDistinctServers ==
    \A c \in ClientIds :
        /\ Len(voters[c]) = Len(computers[c].current_responses)
        /\ \A i, j \in DOMAIN voters[c] : voters[c][i] = voters[c][j] => i = j
        /\ \A i \in DOMAIN voters[c] : voters[c][i] \in ServerIds
        /\ Len(computers[c].current_responses) <= n_servers
        /\ ~ ( /\ 2 * CountOk(computers[c].current_responses) > n_servers
               /\ 2 * CountErr(computers[c].current_responses) > n_servers )

\* In its second round a client of two servers holds the rejection of
\* server 1 and the acceptance of server 0: every server has answered.
C19_Witness ==
    \E c \in ClientIds :
        /\ n_servers = 2
        /\ uuids[c] = 2
        /\ Len(computers[c].current_responses) = 2
        /\ ~computers[c].current_responses[1].ok
        /\ computers[c].current_responses[2].ok
        /\ voters[c] = <<1, 0>>

\* Client c waits for a quorum: it has not won, and in the tally of its
\* current round neither the accepted nor the rejected responses exceed
\* half of the servers.
Awaiting(c) ==
    /\ Lines(c, "SUCCESS") = {}
    /\ \A i \in DOMAIN stdout[c] : stdout[c][i].uuid # computers[c].current_uuid
    /\ 2 * CountOk(computers[c].current_responses) <= n_servers
    /\ 2 * CountErr(computers[c].current_responses) <= n_servers

\* The queue is empty while some client waits for a quorum.
Stalled ==
    /\ pc \in {"loop", "done"}
    /\ in_flight = EmptyBag
    /\ \E c \in ClientIds : Awaiting(c)

\* C20: a run whose queue is empty while a client still waits for a quorum
\* is at its normal end.  No run panics; when the loop finds the queue empty
\* it returns and changes nothing else, so a stalled run ends (pc = "done")
\* with the client still waiting; and a client that waits at an empty queue
\* holds the answers of all servers, accepted and rejected in equal number.
C20_StallIsNormalEnd ==
    /\ [](pc # "panic")
    /\ [][(pc = "loop" /\ in_flight = EmptyBag)
             => /\ pc' = "done"
                /\ UNCHANGED <<computers, in_flight, stdout, uuids, voters>>]_vars
    /\ [](Stalled =>
             \A c \in ClientIds :
                Awaiting(c)
                   => /\ Len(computers[c].current_responses) = n_servers
                      /\ 2 * CountOk(computers[c].current_responses) = n_servers
                      /\ 2 * CountErr(computers[c].current_responses) = n_servers)
    /\ Stalled ~> (pc = "done" /\ Stalled)

\* The run of two servers is over: one client won id 2 after a failure and
\* two clients, which printed nothing, each hold one acceptance and one
\* rejection of id 1.
C20_Witness ==
    /\ pc = "done"
    /\ n_servers = 2
    /\ \E c, d, e \in ClientIds :
          /\ c # d
          /\ stdout[c] = <<>> /\ Awaiting(c)
          /\ stdout[d] = <<>> /\ Awaiting(d)
          /\ last_id(c) = 0 /\ last_id(d) = 0
          /\ Lines(e, "SUCCESS") # {} /\ last_id(e) = 2

====
